---- MODULE Spec2Model ----
(***************************************************************************)
(* A model of the world stepper of physicsRus: Space (body and joint       *)
(* tables, contact solver list, step pipeline, sleep, scene I/O) and the   *)
(* rope joint.                                                             *)
(*                                                                         *)
(* The world is restricted to configurations on the x axis with every      *)
(* joint anchor at its body's centroid: a vec2 is its x component, the     *)
(* cross product of two such vectors is 0, and rotating r = 0 leaves 0.    *)
(* Numbers are fixed point integers:                                       *)
(*   length  : 1 unit = LINEAR_SLOP / 2                                    *)
(*   time    : 1 unit = 1/4 s                                              *)
(*   angle   : 1 unit = 1/2 degree                                         *)
(*   mass    : every dynamic body has m = i = 1                            *)
(* plus one value NaN that behaves as the IEEE NaN of the JavaScript       *)
(* numbers (it absorbs arithmetic and fails every comparison).             *)
(***************************************************************************)
EXTENDS Integers, Sequences, FiniteSets, TLC

(* ------------------------------ bounds -------------------------------- *)
\* Bodies the application constructs with new Body.
MaxBodies == 2
\* Joints the application constructs with new RopeJoint.
MaxJoints == 2
\* Top-level calls of Space.step.
MaxSteps == 2

(* ------------------------------ numbers ------------------------------- *)
\* 0 * (1 / 0) of line 157, and `undefined + 1` of line 703.
NaN == -1000000

IsNaN(x) == x = NaN
NAdd(x, y) == IF x = NaN \/ y = NaN THEN NaN ELSE x + y
NSub(x, y) == IF x = NaN \/ y = NaN THEN NaN ELSE x - y
NMul(x, y) == IF x = NaN \/ y = NaN THEN NaN ELSE x * y
NNeg(x) == IF x = NaN THEN NaN ELSE 0 - x
\* x / y for y # 0, rounded towards zero (the fixed point rounding).
NDiv(x, y) ==
    IF x = NaN \/ y = NaN THEN NaN
    ELSE IF x >= 0 THEN IF y > 0 THEN x \div y ELSE 0 - (x \div (0 - y))
         ELSE IF y > 0 THEN 0 - ((0 - x) \div y) ELSE (0 - x) \div (0 - y)
NLt(x, y) == x # NaN /\ y # NaN /\ x < y
NGt(x, y) == x # NaN /\ y # NaN /\ x > y
NGe(x, y) == x # NaN /\ y # NaN /\ x >= y
NLe(x, y) == x # NaN /\ y # NaN /\ x <= y
\* Math.min, Math.max: NaN if either argument is NaN.
NMin(x, y) == IF x = NaN \/ y = NaN THEN NaN ELSE IF x < y THEN x ELSE y
NMax(x, y) == IF x = NaN \/ y = NaN THEN NaN ELSE IF x > y THEN x ELSE y
\* Math.clamp(v, min, max) = Math.max(min, Math.min(v, max)).
clamp(v, lo, hi) == NMax(lo, NMin(v, hi))
\* vec2.length of a vector on the x axis.
length(d) == IF d = NaN THEN NaN ELSE IF d < 0 THEN 0 - d ELSE d
\* vec2.cross(r, u) = r.x * u.y - r.y * u.x of two vectors on the x axis.
cross(r, u) == IF r = NaN \/ u = NaN THEN NaN ELSE 0
\* vec2.rotate(r, a) of the zero vector r.
rotate(r, a) == IF r = NaN \/ a = NaN THEN NaN ELSE r

(* ----------------------------- constants ------------------------------ *)
\* Joint.LINEAR_SLOP (0.5e-2), in length units.
LINEAR_SLOP == 2
\* Joint.MAX_LINEAR_CORRECTION (0.2 = 40 * LINEAR_SLOP).
MAX_LINEAR_CORRECTION == 80
\* Space.TIME_TO_SLEEP = 0.5 s, in time units.
TIME_TO_SLEEP == 2
\* Space.SLEEP_LINEAR_TOLERANCE = 0.5 per second = 100 LINEAR_SLOP per
\* second = 50 length units per time unit.
SLEEP_LINEAR_TOLERANCE == 50
\* Space.SLEEP_ANGULAR_TOLERANCE = 2 degrees per second = 1 angle unit per
\* time unit.
SLEEP_ANGULAR_TOLERANCE == 1
\* Shape.TYPE_CIRCLE, TYPE_SEGMENT, TYPE_POLY.
TYPE_CIRCLE == 0
TYPE_SEGMENT == 1
TYPE_POLY == 2
\* Radius of every shape (a circle, or the bounding circle of the shape).
RADIUS == 20

(* --------------------------- the object heap -------------------------- *)
\* Objects are named by their place in the order of construction; 0 is
\* `undefined`.  The tables of Space and Body are keyed by id.
BodyObjCap == 2 * MaxBodies
JointObjCap == 2 * MaxJoints
BodyIds == 0 .. (BodyObjCap - 1)
JointIds == 0 .. (JointObjCap - 1)

VARIABLES
    bodies,     \* Body objects, in order of construction
    shapes,     \* Shape objects, in order of construction
    joints,     \* Joint objects, in order of construction
    space,      \* the Space
    counters,   \* Body.id_counter, Shape.id_counter, Joint.id_counter
    pc,         \* "idle", or "postSolve" inside Space.step
    frame,      \* the locals of the running step
    err,        \* the exception the last call threw, or "none"
    ghost       \* history for the properties

vars == <<bodies, shapes, joints, space, counters, pc, frame, err, ghost>>

\* The part of the state the program's functions work on.
\* calls is the record of the calls a step makes, empty outside of a step.
World == [bodies |-> bodies, shapes |-> shapes, joints |-> joints,
          space |-> space, counters |-> counters, calls |-> <<>>]

\* The call e is added to the record of the calls.
logged(W, e) == [W EXCEPT !.calls = Append(@, e)]

SetWorld(W) ==
    /\ bodies' = W.bodies
    /\ shapes' = W.shapes
    /\ joints' = W.joints
    /\ space' = W.space
    /\ counters' = W.counters

(* -------------------------------- Body -------------------------------- *)
isStatic(B) == B.type = "static"
isDynamic(B) == B.type = "dynamic"
isAwake(B) == B.awaked
m_inv(B) == IF isStatic(B) THEN 0 ELSE 1
i_inv(B) == IF isStatic(B) THEN 0 ELSE 1

\* Body.awake(flag): flips the sleep state, resets sleepTime when waking.
awake(B, flag) ==
    [B EXCEPT !.awaked = flag, !.sleepTime = IF flag THEN 0 ELSE @]

\* Body.cacheData: world geometry and AABB follow the pose.
cacheData(B) == [B EXCEPT !.cp = B.p]

NO_SHAPE == -1

\* new Body(type, x, 0, 0), and body.addShape(new Shape...) of a shape of
\* type st unless st = NO_SHAPE.
newBody(W, type, x, st) ==
    LET b == Len(W.bodies) + 1
        s == Len(W.shapes) + 1
        B == [id |-> W.counters.Body, type |-> type,
              p |-> x, a |-> 0, v |-> 0, w |-> 0,
              awaked |-> FALSE, sleepTime |-> 0,
              jointHash |-> [i \in JointIds |-> 0],
              space |-> FALSE, stepCount |-> 0, cp |-> x,
              shapeArr |-> IF st = NO_SHAPE THEN <<>> ELSE <<s>>]
    IN  IF st = NO_SHAPE
        THEN [W EXCEPT !.bodies = Append(@, B), !.counters.Body = @ + 1]
        ELSE [W EXCEPT !.bodies = Append(@, B),
                       !.shapes = Append(@, [type |-> st, body |-> b]),
                       !.counters.Body = @ + 1,
                       !.counters.Shape = @ + 1]

(* ------------------------------- Space -------------------------------- *)
\* function Space(): stepCount is not assigned by the constructor.
NewSpace ==
    [bodyHash |-> [i \in BodyIds |-> 0], numBodies |-> 0,
     jointHash |-> [i \in JointIds |-> 0], numJoints |-> 0,
     contactSolverArr |-> <<>>, numContacts |-> 0,
     gravity |-> 0, damping |-> 1, stepCount |-> NaN]

addBody(W, b) ==
    LET B == W.bodies[b] IN
    IF W.space.bodyHash[B.id] # 0 THEN W
    ELSE [W EXCEPT !.space.bodyHash[B.id] = b,
                   !.space.numBodies = @ + 1,
                   !.bodies[b] = cacheData([awake(@, TRUE) EXCEPT !.space = TRUE])]

addJoint(W, j) ==
    LET J == W.joints[j] IN
    IF W.space.jointHash[J.id] # 0 THEN W
    ELSE LET W1 == [W EXCEPT !.bodies[J.body1] = awake(@, TRUE)]
             W2 == [W1 EXCEPT !.bodies[J.body2] = awake(@, TRUE)]
             W3 == [W2 EXCEPT !.space.jointHash[J.id] = j,
                              !.space.numJoints = @ + 1]
             W4 == [W3 EXCEPT !.bodies[J.body1].jointHash[J.id] = j]
         IN  [W4 EXCEPT !.bodies[J.body2].jointHash[J.id] = j]

removeJoint(W, j) ==
    LET J == W.joints[j] IN
    IF W.space.jointHash[J.id] = 0 THEN W
    ELSE LET W1 == [W EXCEPT !.bodies[J.body1] = awake(@, TRUE)]
             W2 == [W1 EXCEPT !.bodies[J.body2] = awake(@, TRUE)]
             W3 == [W2 EXCEPT !.bodies[J.body1].jointHash[J.id] = 0]
             W4 == [W3 EXCEPT !.bodies[J.body2].jointHash[J.id] = 0]
         IN  [W4 EXCEPT !.space.jointHash[J.id] = 0,
                        !.space.numJoints = @ - 1]

\* for (var i in body.jointHash) this.removeJoint(body.jointHash[i]):
\* integer keys are visited in ascending order, a deleted key is skipped.
RECURSIVE removeLinkedJoints(_, _, _)
removeLinkedJoints(W, b, i) ==
    IF i > JointObjCap - 1 THEN W
    ELSE LET j == W.bodies[b].jointHash[i] IN
         removeLinkedJoints(IF j # 0 THEN removeJoint(W, j) ELSE W, b, i + 1)

\* removeBody without the loop over body.jointHash.
removeBodyOnly(W, b) ==
    LET B == W.bodies[b] IN
    IF W.space.bodyHash[B.id] = 0 THEN W
    ELSE [W EXCEPT !.bodies[b].space = FALSE,
                   !.space.bodyHash[B.id] = 0,
                   !.space.numBodies = @ - 1]

removeBody(W, b) ==
    LET B == W.bodies[b] IN
    IF W.space.bodyHash[B.id] = 0 THEN W
    ELSE LET W1 == removeLinkedJoints(W, b, 0) IN
         [W1 EXCEPT !.bodies[b].space = FALSE,
                    !.space.bodyHash[B.id] = 0,
                    !.space.numBodies = @ - 1]

\* for (var i in this.bodyHash) this.removeBody(this.bodyHash[i]).
RECURSIVE removeAllBodies(_, _)
removeAllBodies(W, i) ==
    IF i > BodyObjCap - 1 THEN W
    ELSE LET b == W.space.bodyHash[i] IN
         removeAllBodies(IF b # 0 THEN removeBody(W, b) ELSE W, i + 1)

clear(W) ==
    LET W1 == [W EXCEPT !.counters = [Body |-> 0, Shape |-> 0, Joint |-> 0]]
        W2 == removeAllBodies(W1, 0)
    IN  [W2 EXCEPT !.space.contactSolverArr = <<>>,
                   !.space.stepCount = 0]

(* ----------------------------- RopeJoint ------------------------------ *)
\* new RopeJoint(body1, body2, anchor1, anchor2) with the world anchors at
\* the two bodies' positions, then joint.maxForce and joint.breakable set.
newRopeJoint(W, b1, b2, maxForce, breakable) ==
    LET anchor1 == W.bodies[b1].p
        anchor2 == W.bodies[b2].p
        J == [type |-> "RopeJoint", id |-> W.counters.Joint,
              body1 |-> b1, body2 |-> b2,
              anchor1 |-> 0, anchor2 |-> 0,
              maxDistance |-> length(NSub(anchor1, anchor2)),
              lambda_acc |-> 0,
              collideConnected |-> TRUE,
              maxForce |-> maxForce, breakable |-> breakable,
              cdt |-> 0, u |-> 0, s1 |-> 0, s2 |-> 0, em_inv |-> 0]
    IN  [W EXCEPT !.joints = Append(@, J), !.counters.Joint = @ + 1]

\* RopeJoint.prototype.initSolver(dt, warmStarting).  maxImpulse, distance
\* and limitState are written here and read nowhere.
ropeInitSolver(W, j, dt, warmStarting) ==
    LET J == W.joints[j]
        body1 == W.bodies[J.body1]
        body2 == W.bodies[J.body2]
        r1 == rotate(NSub(J.anchor1, 0), body1.a)
        r2 == rotate(NSub(J.anchor2, 0), body2.a)
        d == NSub(NAdd(body2.p, r2), NAdd(body1.p, r1))
        distance == length(d)
        c == NSub(distance, J.maxDistance)
        cdt == IF NGt(c, 0) THEN 0 ELSE NDiv(c, dt)
        \* vec2.scale(d, 1 / distance), exact on the x axis
        u == IF NGt(distance, LINEAR_SLOP) THEN NDiv(d, distance) ELSE 0
        s1 == cross(r1, u)
        s2 == cross(r2, u)
        em_inv == NAdd(NAdd(NAdd(m_inv(body1), m_inv(body2)),
                            NMul(NMul(i_inv(body1), s1), s1)),
                       NMul(NMul(i_inv(body2), s2), s2))
        jv == NMul(u, J.lambda_acc)
        W1 == [W EXCEPT !.joints[j].cdt = cdt, !.joints[j].u = u,
                        !.joints[j].s1 = s1, !.joints[j].s2 = s2,
                        !.joints[j].em_inv = em_inv]
    IN  IF warmStarting
        THEN LET W2 == [W1 EXCEPT
                     !.bodies[J.body1].v = NAdd(@, NMul(jv, 0 - m_inv(body1))),
                     !.bodies[J.body1].w =
                         NSub(@, NMul(NMul(s1, J.lambda_acc), i_inv(body1)))]
             IN  [W2 EXCEPT
                     !.bodies[J.body2].v = NAdd(@, NMul(jv, m_inv(body2))),
                     !.bodies[J.body2].w =
                         NAdd(@, NMul(NMul(s2, J.lambda_acc), i_inv(body2)))]
        ELSE [W1 EXCEPT !.joints[j].lambda_acc = 0]

\* em * x with em = em_inv == 0 ? 0 : 1 / em_inv.
emTimes(em_inv, x) ==
    IF em_inv = NaN \/ x = NaN THEN NaN
    ELSE IF em_inv = 0 THEN 0 ELSE NDiv(x, em_inv)

\* RopeJoint.prototype.solveVelocityConstraints.
ropeSolveVelocityConstraints(W, j) ==
    LET J == W.joints[j]
        body1 == W.bodies[J.body1]
        body2 == W.bodies[J.body2]
        cdot == NSub(NAdd(NMul(J.u, NSub(body2.v, body1.v)),
                          NMul(J.s2, body2.w)),
                     NMul(J.s1, body1.w))
        lambda0 == NNeg(emTimes(J.em_inv, NAdd(cdot, J.cdt)))
        lambda_old == J.lambda_acc
        lambda_acc == NMin(NAdd(lambda_old, lambda0), 0)
        lambda == NSub(lambda_acc, lambda_old)
        jv == NMul(J.u, lambda)
        W1 == [W EXCEPT !.joints[j].lambda_acc = lambda_acc]
        W2 == [W1 EXCEPT
                 !.bodies[J.body1].v = NAdd(@, NMul(jv, 0 - m_inv(body1))),
                 !.bodies[J.body1].w =
                     NSub(@, NMul(NMul(J.s1, lambda), i_inv(body1)))]
    IN  [W2 EXCEPT
            !.bodies[J.body2].v = NAdd(@, NMul(jv, m_inv(body2))),
            !.bodies[J.body2].w =
                NAdd(@, NMul(NMul(J.s2, lambda), i_inv(body2)))]

\* vec2.scale(d, 1 / dist) with no guard on dist: 0 * Infinity is NaN.
scaleByInverse(d, dist) ==
    IF d = NaN \/ dist = NaN THEN NaN
    ELSE IF dist = 0 THEN NaN ELSE NDiv(d, dist)

\* RopeJoint.prototype.solvePositionConstraints: the world after it and the
\* value it returns.
ropeSolvePositionConstraints(W, j) ==
    LET J == W.joints[j]
        body1 == W.bodies[J.body1]
        body2 == W.bodies[J.body2]
        r1 == rotate(NSub(J.anchor1, 0), body1.a)
        r2 == rotate(NSub(J.anchor2, 0), body2.a)
        d == NSub(NAdd(body2.p, r2), NAdd(body1.p, r1))
        dist == length(d)
        u == scaleByInverse(d, dist)
        c == NSub(dist, J.maxDistance)
        correction == clamp(c, 0, MAX_LINEAR_CORRECTION)
        s1 == cross(r1, u)
        s2 == cross(r2, u)
        em_inv == NAdd(NAdd(NAdd(m_inv(body1), m_inv(body2)),
                            NMul(NMul(i_inv(body1), s1), s1)),
                       NMul(NMul(i_inv(body2), s2), s2))
        lambda == IF em_inv = 0 THEN 0 ELSE NDiv(NNeg(correction), em_inv)
        jv == NMul(u, lambda)
        W1 == [W EXCEPT
                 !.bodies[J.body1].p = NAdd(@, NMul(jv, 0 - m_inv(body1))),
                 !.bodies[J.body1].a =
                     NSub(@, NMul(NMul(s1, lambda), i_inv(body1)))]
        W2 == [W1 EXCEPT
                 !.bodies[J.body2].p = NAdd(@, NMul(jv, m_inv(body2))),
                 !.bodies[J.body2].a =
                     NAdd(@, NMul(NMul(s2, lambda), i_inv(body2)))]
    IN  [W |-> W2, ok |-> NLt(c, LINEAR_SLOP)]

\* The distance between the two world anchors of joint j (lines 147-154).
anchorDistance(W, j) ==
    LET J == W.joints[j]
        body1 == W.bodies[J.body1]
        body2 == W.bodies[J.body2]
        r1 == rotate(NSub(J.anchor1, 0), body1.a)
        r2 == rotate(NSub(J.anchor2, 0), body2.a)
    IN  length(NSub(NAdd(body2.p, r2), NAdd(body1.p, r1)))

\* The breakage test with > in the place of >=.
reactionForceExceeds(J, dt) ==
    LET f == NMul(J.u, J.lambda_acc) IN
    NGt(NMul(f, f), NMul(NMul(J.maxForce, dt), NMul(J.maxForce, dt)))

\* RopeJoint.prototype.getReactionForce(dt_inv).lengthsq() >=
\* maxForce * maxForce, with both sides multiplied by dt * dt (dt > 0).
reactionForceBreaks(J, dt) ==
    LET f == NMul(J.u, J.lambda_acc) IN
    NGe(NMul(f, f), NMul(NMul(J.maxForce, dt), NMul(J.maxForce, dt)))

(* ------------------- collision and ContactSolver ---------------------- *)
bodyOf(W, s) == W.bodies[W.shapes[s].body]

\* Body.isCollidable(other): at least one of the two is dynamic and no
\* joint with collideConnected = false links them.
isCollidable(W, b1, b2) ==
    LET B1 == W.bodies[b1]
        B2 == W.bodies[b2]
    IN  /\ isDynamic(B1) \/ isDynamic(B2)
        /\ \A i \in JointIds :
              B1.jointHash[i] # 0 =>
                 \/ W.joints[B1.jointHash[i]].collideConnected
                 \/ B2.jointHash[i] = 0

\* body1.bounds.intersectsBounds(body2.bounds): the AABB cached by
\* cacheData, empty for a body without shapes.
intersectsBounds(B1, B2) ==
    /\ Len(B1.shapeArr) > 0
    /\ Len(B2.shapeArr) > 0
    /\ NLe(NSub(B1.cp, RADIUS), NAdd(B2.cp, RADIUS))
    /\ NLe(NSub(B2.cp, RADIUS), NAdd(B1.cp, RADIUS))

sign(x) == IF x = NaN THEN NaN ELSE IF x > 0 THEN 1 ELSE IF x < 0 THEN 0 - 1 ELSE 0

\* collision.collide(shape1, shape2, contactArr) on the cached geometry:
\* the contacts (none, or one with its normal from the shape of lower type
\* to the other and its separation d < 0).
collide(W, s1, s2) ==
    LET swap == W.shapes[s1].type > W.shapes[s2].type
        a == IF swap THEN s2 ELSE s1
        b == IF swap THEN s1 ELSE s2
        t == NSub(bodyOf(W, b).cp, bodyOf(W, a).cp)
        dist == length(t)
    IN  IF NLt(dist, 2 * RADIUS)
        THEN <<[n |-> sign(t), d |-> dist - 2 * RADIUS]>>
        ELSE <<>>

\* The lookup of a mutant that never finds the solver of the last step.
findContactSolverNever(W, shape1, shape2) == 0

\* Space.prototype.findContactSolver: the index of the solver, or 0.
findContactSolver(W, shape1, shape2) ==
    LET arr == W.space.contactSolverArr
        hits == {k \in 1 .. Len(arr) :
                    arr[k].shape1 = shape1 /\ arr[k].shape2 = shape2}
    IN  IF hits = {} THEN 0 ELSE CHOOSE k \in hits : \A h \in hits : k <= h

\* ContactSolver.update(contactArr): the new contact replaces the old one,
\* the accumulated impulse of the matching feature is carried forward.
csUpdate(C, contactArr) ==
    [C EXCEPT !.n = contactArr[1].n, !.d = contactArr[1].d]

\* new ContactSolver(shape1, shape2) with its contactArr.  obj names the
\* object: two entries of a list with the same obj are one ContactSolver.
newContactSolver(shape1, shape2, contactArr, obj) ==
    [shape1 |-> shape1, shape2 |-> shape2,
     n |-> contactArr[1].n, d |-> contactArr[1].d,
     jn_acc |-> 0, en_inv |-> 0, obj |-> obj]

\* An assignment to a field of the solver at index k: every entry of the
\* list that is the same object shows it.
csWrite(arr, k, C) ==
    [h \in DOMAIN arr |-> IF arr[h].obj = arr[k].obj THEN C ELSE arr[h]]

\* ContactSolver.initSolver(dt_inv): the effective normal mass; the
\* restitution of every shape is 0, so the bias is 0.
csInitSolver(W, k) ==
    LET C == W.space.contactSolverArr[k] IN
    [W EXCEPT !.space.contactSolverArr = csWrite(@, k,
        [C EXCEPT !.en_inv = NAdd(m_inv(bodyOf(W, C.shape1)),
                                  m_inv(bodyOf(W, C.shape2)))])]

\* Applies the normal impulse jn along n to the two bodies of solver C.
csApplyImpulse(W, C, jn) ==
    LET b1 == W.shapes[C.shape1].body
        b2 == W.shapes[C.shape2].body
        jv == NMul(C.n, jn)
        W1 == [W EXCEPT !.bodies[b1].v =
                           NSub(@, NMul(jv, m_inv(W.bodies[b1])))]
    IN  [W1 EXCEPT !.bodies[b2].v = NAdd(@, NMul(jv, m_inv(W.bodies[b2])))]

\* ContactSolver.warmStart.
csWarmStart(W, k) ==
    csApplyImpulse(W, W.space.contactSolverArr[k],
                   W.space.contactSolverArr[k].jn_acc)

\* ContactSolver.solveVelocityConstraints: the normal impulse, clamped to
\* jn_acc >= 0 (the friction of every shape is 0).
csSolveVelocityConstraints(W, k) ==
    LET C == W.space.contactSolverArr[k]
        vn == NMul(NSub(bodyOf(W, C.shape2).v, bodyOf(W, C.shape1).v), C.n)
        jn0 == NNeg(emTimes(C.en_inv, vn))
        jn_old == C.jn_acc
        jn_acc == NMax(NAdd(jn_old, jn0), 0)
        W1 == [W EXCEPT !.space.contactSolverArr =
                           csWrite(@, k, [C EXCEPT !.jn_acc = jn_acc])]
    IN  csApplyImpulse(W1, C, NSub(jn_acc, jn_old))

\* ContactSolver.solvePositionConstraints: the world after it and whether
\* the separation is within the slop.
csSolvePositionConstraints(W, k) ==
    LET C == W.space.contactSolverArr[k]
        b1 == W.shapes[C.shape1].body
        b2 == W.shapes[C.shape2].body
        sep == NSub(NMul(NSub(W.bodies[b2].p, W.bodies[b1].p), C.n),
                    2 * RADIUS)
        correction == clamp(NAdd(sep, LINEAR_SLOP),
                            0 - MAX_LINEAR_CORRECTION, 0)
        lambda == NNeg(emTimes(C.en_inv, correction))
        jv == NMul(C.n, lambda)
        W1 == [W EXCEPT !.bodies[b1].p =
                           NSub(@, NMul(jv, m_inv(W.bodies[b1])))]
        W2 == [W1 EXCEPT !.bodies[b2].p =
                            NAdd(@, NMul(jv, m_inv(W.bodies[b2])))]
    IN  [W |-> W2, ok |-> NGe(sep, 0 - LINEAR_SLOP)]

(* ------------------------ Space: the step pipeline -------------------- *)
\* The body of the two shape loops of genTemporalContactSolvers for one
\* pair of shapes.  S = [W, arr, prev, n]: the world, newContactSolverArr,
\* for each of its entries the obj it had in this.contactSolverArr (0 for a
\* new solver), and numContacts.
genShapePair(S, b1, b2, i, j) ==
    LET W == S.W
        s1 == W.bodies[b1].shapeArr[i]
        s2 == W.bodies[b2].shapeArr[j]
        contactArr == collide(W, s1, s2)
        swap == W.shapes[s1].type > W.shapes[s2].type
        shape1 == IF swap THEN s2 ELSE s1
        shape2 == IF swap THEN s1 ELSE s2
        k == findContactSolver(W, shape1, shape2)
        old == W.space.contactSolverArr
        new == Len(S.arr) + 1
    IN  IF contactArr = <<>> THEN S
        ELSE IF k # 0
        THEN LET C == csUpdate(old[k], contactArr)
                 same == {h \in 1 .. Len(S.arr) : S.prev[h] = old[k].obj}
                 obj == IF same = {} THEN new ELSE S.arr[CHOOSE h \in same : TRUE].obj
                 arr1 == [h \in 1 .. Len(S.arr) |->
                            IF h \in same THEN [C EXCEPT !.obj = obj]
                            ELSE S.arr[h]]
             IN  [S EXCEPT
                    !.n = @ + Len(contactArr),
                    !.arr = Append(arr1, [C EXCEPT !.obj = obj]),
                    !.prev = Append(@, old[k].obj),
                    !.W = logged([W EXCEPT !.space.contactSolverArr =
                                              csWrite(@, k, C)],
                                 [op |-> "manifold", shape1 |-> shape1,
                                  shape2 |-> shape2, old |-> k,
                                  acc |-> C.jn_acc])]
        ELSE LET W1 == [W EXCEPT !.bodies[b1] = awake(@, TRUE)]
                 W2 == [W1 EXCEPT !.bodies[b2] = awake(@, TRUE)]
             IN  [S EXCEPT
                    !.n = @ + Len(contactArr),
                    !.arr = Append(@, newContactSolver(shape1, shape2,
                                                       contactArr, new)),
                    !.prev = Append(@, 0),
                    !.W = logged(W2,
                                 [op |-> "manifold", shape1 |-> shape1,
                                  shape2 |-> shape2, old |-> 0, acc |-> 0])]

RECURSIVE genShapes(_, _, _, _, _)
genShapes(S, b1, b2, i, j) ==
    IF i > Len(S.W.bodies[b1].shapeArr) THEN S
    ELSE IF j > Len(S.W.bodies[b2].shapeArr)
         THEN genShapes(S, b1, b2, i + 1, 1)
         ELSE genShapes(genShapePair(S, b1, b2, i, j), b1, b2, i, j + 1)

\* One pass of the inner loop: body1 against body2.
genBodyPair(S, b1, b2) ==
    LET body1 == S.W.bodies[b1]
        body2 == S.W.bodies[b2]
        active1 == isAwake(body1) /\ ~isStatic(body1)
        active2 == isAwake(body2) /\ ~isStatic(body2)
        \* the pair has passed the test of line 564
        S1 == [S EXCEPT !.W = logged(@, [op |-> "pair", a |-> b1, b |-> b2])]
    IN  IF body1.stepCount # NaN /\ body1.stepCount = body2.stepCount THEN S
        ELSE IF ~active1 /\ ~active2 THEN S1
        ELSE IF ~isCollidable(S.W, b1, b2) THEN S1
        ELSE IF ~intersectsBounds(body1, body2) THEN S1
        ELSE genShapes(S1, b1, b2, 1, 1)

RECURSIVE genInner(_, _, _)
genInner(S, b1, i2) ==
    IF i2 > BodyObjCap - 1 THEN S
    ELSE LET b2 == S.W.space.bodyHash[i2] IN
         genInner(IF b2 # 0 THEN genBodyPair(S, b1, b2) ELSE S, b1, i2 + 1)

RECURSIVE genOuter(_, _)
genOuter(S, i1) ==
    IF i1 > BodyObjCap - 1 THEN S
    ELSE LET b1 == S.W.space.bodyHash[i1] IN
         IF b1 = 0 THEN genOuter(S, i1 + 1)
         ELSE LET S1 == [S EXCEPT !.W.bodies[b1].stepCount =
                                      S.W.space.stepCount]
              IN  genOuter(genInner(S1, b1, 0), i1 + 1)

\* Line 706: the list genTemporalContactSolvers returns is assigned.
assignContactSolverArr(S) ==
    [S.W EXCEPT !.space.contactSolverArr = S.arr, !.space.numContacts = S.n]

\* this.contactSolverArr = this.genTemporalContactSolvers().
genTemporalContactSolvers(W) ==
    assignContactSolverArr(
        genOuter([W |-> W, arr |-> <<>>, prev |-> <<>>, n |-> 0], 0))

RECURSIVE initContacts(_, _)
initContacts(W, k) ==
    IF k > Len(W.space.contactSolverArr) THEN W
    ELSE initContacts(csInitSolver(W, k), k + 1)

RECURSIVE initJoints(_, _, _, _)
initJoints(W, i, dt, warmStarting) ==
    IF i > JointObjCap - 1 THEN W
    ELSE LET j == W.space.jointHash[i]
             W1 == ropeInitSolver(W, j, dt, warmStarting)
         IN  initJoints(IF j # 0
                        THEN logged(W1, [op |-> "initJoint", a |-> j,
                                         lam1 |-> W1.joints[j].lambda_acc,
                                         warm |-> warmStarting])
                        ELSE W,
                        i + 1, dt, warmStarting)

\* Lines 640-644: if (warmStarting), warmStart of every contact solver.
RECURSIVE warmStartContacts(_, _, _)
warmStartContacts(W, k, warmStarting) ==
    IF ~warmStarting \/ k > Len(W.space.contactSolverArr) THEN W
    ELSE warmStartContacts(csWarmStart(W, k), k + 1, warmStarting)

\* Space.prototype.initSolver(dt, dt_inv, warmStarting).
initSolver(W, dt, warmStarting) ==
    warmStartContacts(initJoints(initContacts(W, 1), 0, dt, warmStarting),
                      1, warmStarting)

\* this.jointHash[j].solveVelocityConstraints(), with the call recorded:
\* the joint, its lambda_acc and the velocities of its two bodies before and
\* after the call.
velJointCalled(W, j, W1) ==
    logged(W1, [op |-> "velJoint", a |-> j,
                lam0 |-> W.joints[j].lambda_acc,
                lam1 |-> W1.joints[j].lambda_acc,
                u |-> W.joints[j].u,
                v1 |-> W1.bodies[W.joints[j].body1].v,
                v2 |-> W1.bodies[W.joints[j].body2].v,
                v10 |-> W.bodies[W.joints[j].body1].v,
                v20 |-> W.bodies[W.joints[j].body2].v])

velJoint(W, j) == velJointCalled(W, j, ropeSolveVelocityConstraints(W, j))

\* this.contactSolverArr[j].solveVelocityConstraints(), with the call
\* recorded.
velContact(W, k) ==
    logged(csSolveVelocityConstraints(W, k), [op |-> "velContact", a |-> k])

RECURSIVE velJoints(_, _)
velJoints(W, i) ==
    IF i > JointObjCap - 1 THEN W
    ELSE LET j == W.space.jointHash[i] IN
         velJoints(IF j # 0 THEN velJoint(W, j) ELSE W, i + 1)

RECURSIVE velContacts(_, _)
velContacts(W, k) ==
    IF k > Len(W.space.contactSolverArr) THEN W
    ELSE velContacts(velContact(W, k), k + 1)

\* The velocity solver with the contact solvers ahead of the joints.
RECURSIVE velocitySolverContactsFirst(_, _)
velocitySolverContactsFirst(W, iteration) ==
    IF iteration <= 0 THEN W
    ELSE velocitySolverContactsFirst(velJoints(velContacts(W, 1), 0),
                                     iteration - 1)

\* Space.prototype.velocitySolver(iteration).
RECURSIVE velocitySolver(_, _)
velocitySolver(W, iteration) ==
    IF iteration <= 0 THEN W
    ELSE velocitySolver(velContacts(velJoints(W, 0), 1), iteration - 1)

\* R = [W, contactsOk, jointsOk]: the world and the two flags of a round
\* of the position solver; r = [W, ok]: the result of one
\* solvePositionConstraints.
\* Each call is recorded with what it returned; the call of a joint also
\* with the distance of its anchors before it and whether it left the
\* bodies as they were.
contactSolved(R, k, r) ==
    [R EXCEPT !.W = logged(r.W, [op |-> "posContact", a |-> k, ok |-> r.ok]),
              !.contactsOk = r.ok /\ @]
jointSolved(R, j, r) ==
    [R EXCEPT !.W = logged(r.W, [op |-> "posJoint", a |-> j, ok |-> r.ok,
                                 dist |-> anchorDistance(R.W, j),
                                 same |-> r.W.bodies = R.W.bodies]),
              !.jointsOk = r.ok /\ @]

RECURSIVE posContacts(_, _)
posContacts(R, k) ==
    IF k > Len(R.W.space.contactSolverArr) THEN R
    ELSE posContacts(contactSolved(R, k, csSolvePositionConstraints(R.W, k)),
                     k + 1)

RECURSIVE posJoints(_, _)
posJoints(R, i) ==
    IF i > JointObjCap - 1 THEN R
    ELSE IF R.W.space.jointHash[i] = 0 THEN posJoints(R, i + 1)
    ELSE posJoints(
             jointSolved(R, R.W.space.jointHash[i],
                         ropeSolvePositionConstraints(
                             R.W, R.W.space.jointHash[i])),
             i + 1)

\* Space.prototype.positionSolver(iteration): the world after it and
\* positionSolved.  positionRound is the end of one round (lines 686-692).
RECURSIVE positionSolver(_, _)
RECURSIVE positionRound(_, _)
\* The end of a round without the early exit of lines 686-690.
positionRoundNoExit(R, iteration) == positionSolver(R.W, iteration - 1)

positionRound(R, iteration) ==
    IF R.contactsOk /\ R.jointsOk THEN [W |-> R.W, ok |-> TRUE]
    ELSE positionSolver(R.W, iteration - 1)

positionSolver(W, iteration) ==
    IF iteration <= 0 THEN [W |-> W, ok |-> FALSE]
    ELSE positionRound(
             posJoints(posContacts([W |-> logged(W, [op |-> "posRound"]),
                                    contactsOk |-> TRUE,
                                    jointsOk |-> TRUE], 1), 0),
             iteration)

\* Body.updateVelocity(gravity, damping, dt), with no force and no torque.
updateVelocity(B, gravity, damping, dt) ==
    [B EXCEPT !.v = NMul(damping, NAdd(@, NMul(dt, gravity))),
              !.w = NMul(damping, @)]

\* Body.updatePosition(dt).
updatePosition(B, dt) ==
    [B EXCEPT !.p = NAdd(@, NMul(B.v, dt)), !.a = NAdd(@, NMul(B.w, dt))]

\* Lines 712-718 and 741-746: the bodies of the table that are dynamic and
\* awake are integrated.
integrateVelocities(W, dt) ==
    LET damping == IF W.space.damping < 1 THEN 0 ELSE 1 IN
    [W EXCEPT !.bodies = [b \in DOMAIN W.bodies |->
        IF /\ W.space.bodyHash[W.bodies[b].id] = b
           /\ isDynamic(W.bodies[b]) /\ isAwake(W.bodies[b])
        THEN updateVelocity(W.bodies[b], W.space.gravity, damping, dt)
        ELSE W.bodies[b]]]

integratePositions(W, dt) ==
    [W EXCEPT !.bodies = [b \in DOMAIN W.bodies |->
        IF /\ W.space.bodyHash[W.bodies[b].id] = b
           /\ isDynamic(W.bodies[b]) /\ isAwake(W.bodies[b])
        THEN updatePosition(W.bodies[b], dt)
        ELSE W.bodies[b]]]

\* Lines 720-735: wake propagation across the joints, in table order.
RECURSIVE wakeAcrossJoints(_, _)
wakeAcrossJoints(W, i) ==
    IF i > JointObjCap - 1 THEN W
    ELSE LET j == W.space.jointHash[i] IN
         IF j = 0 THEN wakeAcrossJoints(W, i + 1)
         ELSE LET J == W.joints[j]
                  body1 == W.bodies[J.body1]
                  body2 == W.bodies[J.body2]
                  awake1 == isAwake(body1) /\ ~isStatic(body1)
                  awake2 == isAwake(body2) /\ ~isStatic(body2)
                  W1 == IF awake1 # awake2 /\ ~awake1
                        THEN [W EXCEPT !.bodies[J.body1] = awake(@, TRUE)]
                        ELSE W
                  W2 == IF awake1 # awake2 /\ ~awake2
                        THEN [W1 EXCEPT !.bodies[J.body2] = awake(@, TRUE)]
                        ELSE W1
              IN  wakeAcrossJoints(W2, i + 1)

\* Lines 748-755: the breakable joints whose reaction force reaches
\* maxForce are removed, in table order.
RECURSIVE breakJoints(_, _, _)
breakJoints(W, i, dt) ==
    IF i > JointObjCap - 1 THEN W
    ELSE LET j == W.space.jointHash[i] IN
         IF j # 0 /\ W.joints[j].breakable
                  /\ reactionForceBreaks(W.joints[j], dt)
         THEN breakJoints(removeJoint(W, j), i + 1, dt)
         ELSE breakJoints(W, i + 1, dt)

\* Space.prototype.step up to the integration of the positions (lines
\* 701-746).
stepToIntegrated(W, dt, vel_iteration, warmStarting) ==
    LET W1 == [W EXCEPT !.space.stepCount = NAdd(@, 1)]
        W2 == genTemporalContactSolvers(W1)
        W3 == initSolver(W2, dt, warmStarting)
        W4 == integrateVelocities(W3, dt)
        W5 == wakeAcrossJoints(W4, 0)
        W6 == velocitySolver(
                 logged(W5, [op |-> "velocityStart",
                             awake |-> {b \in 1 .. Len(W5.bodies) :
                                           isAwake(W5.bodies[b])}]),
                 vel_iteration)
    IN  integratePositions(W6, dt)

\* Lines 748-758 on the world W7 of line 746: W7, the world W8 the
\* position solver starts from, the world W after it and positionSolved.
solvedFrom(W7, W8, pos_iteration) ==
    [W7 |-> W7, W8 |-> W8, R |-> positionSolver(W8, pos_iteration)]

brokenFrom(W7, dt, pos_iteration) ==
    solvedFrom(W7, breakJoints(W7, 0, dt), pos_iteration)

\* Space.prototype.step up to the postSolve loop (lines 701-764), with the
\* two worlds on the way.  Body.syncTransform changes nothing of the model.
stepToPostSolve(W, dt, vel_iteration, pos_iteration, warmStarting) ==
    brokenFrom(stepToIntegrated(W, dt, vel_iteration, warmStarting),
               dt, pos_iteration)

\* minSleepTime = 999999 (seconds), in time units.
MIN_SLEEP_TIME_INIT == 3999996

\* The sleep loop of lines 786-801 from table index i on: the bodies with
\* their sleepTime updated and minSleepTime.
RECURSIVE sleepTimes(_, _, _)
sleepTimes(R, i, dt) ==
    IF i > BodyObjCap - 1 THEN R
    ELSE LET b == R.W.space.bodyHash[i] IN
         IF b = 0 \/ ~isDynamic(R.W.bodies[b]) THEN sleepTimes(R, i + 1, dt)
         ELSE LET body == R.W.bodies[b] IN
              IF \/ NGt(NMul(body.w, body.w),
                        SLEEP_ANGULAR_TOLERANCE * SLEEP_ANGULAR_TOLERANCE)
                 \/ NGt(NMul(body.v, body.v),
                        SLEEP_LINEAR_TOLERANCE * SLEEP_LINEAR_TOLERANCE)
              THEN sleepTimes([W |-> [R.W EXCEPT !.bodies[b].sleepTime = 0],
                               min |-> 0], i + 1, dt)
              ELSE sleepTimes(
                       [W |-> [R.W EXCEPT !.bodies[b].sleepTime = @ + dt],
                        min |-> NMin(R.min, body.sleepTime + dt)], i + 1, dt)

\* Lines 804-807: body.awake(false) on every body of the table.
sleepAll(W) ==
    [W EXCEPT !.bodies = [b \in DOMAIN W.bodies |->
        IF W.space.bodyHash[W.bodies[b].id] = b
        THEN awake(W.bodies[b], FALSE) ELSE W.bodies[b]]]

\* The end of step with minSleepTime > TIME_TO_SLEEP in the place of >=.
stepAfterPostSolveLate(W, dt, allowSleep, positionSolved) ==
    LET W1 == [W EXCEPT !.bodies = [b \in DOMAIN W.bodies |->
                  IF /\ W.space.bodyHash[W.bodies[b].id] = b
                     /\ isDynamic(W.bodies[b]) /\ isAwake(W.bodies[b])
                  THEN cacheData(W.bodies[b]) ELSE W.bodies[b]]]
        R == sleepTimes([W |-> W1, min |-> MIN_SLEEP_TIME_INIT], 0, dt)
    IN  IF ~allowSleep THEN W1
        ELSE IF positionSolved /\ NGt(R.min, TIME_TO_SLEEP)
        THEN sleepAll(R.W)
        ELSE R.W

\* Space.prototype.step after the postSolve loop (lines 772-809).
stepAfterPostSolve(W, dt, allowSleep, positionSolved) ==
    LET W1 == [W EXCEPT !.bodies = [b \in DOMAIN W.bodies |->
                  IF /\ W.space.bodyHash[W.bodies[b].id] = b
                     /\ isDynamic(W.bodies[b]) /\ isAwake(W.bodies[b])
                  THEN cacheData(W.bodies[b]) ELSE W.bodies[b]]]
        R == sleepTimes([W |-> W1, min |-> MIN_SLEEP_TIME_INIT], 0, dt)
    IN  IF ~allowSleep THEN W1
        ELSE IF positionSolved /\ NGe(R.min, TIME_TO_SLEEP)
        THEN sleepAll(R.W)
        ELSE R.W

(* ------------------------------ scene I/O ----------------------------- *)
\* The shape kinds of Shape.serialize, by shape type.
shapeKind(type) ==
    IF type = TYPE_CIRCLE THEN "ShapeCircle"
    ELSE IF type = TYPE_SEGMENT THEN "ShapeSegment" ELSE "ShapePoly"

shapeType(kind) ==
    IF kind = "ShapeCircle" THEN TYPE_CIRCLE
    ELSE IF kind = "ShapeSegment" THEN TYPE_SEGMENT ELSE TYPE_POLY

\* The cases of the switch of lines 255-265.
ShapeKinds == {"ShapeCircle", "ShapeSegment", "ShapePoly"}

\* Body.serialize: type, position and shapes.
serializeBody(W, b) ==
    [type |-> W.bodies[b].type, x |-> W.bodies[b].p,
     shapes |-> [i \in 1 .. Len(W.bodies[b].shapeArr) |->
                    shapeKind(W.shapes[W.bodies[b].shapeArr[i]].type)]]

\* RopeJoint.prototype.serialize; a joint of another kind serializes the
\* same fields under its own type.
serializeJoint(W, j) ==
    LET J == W.joints[j] IN
    [type |-> J.type,
     body1 |-> W.bodies[J.body1].id,
     body2 |-> W.bodies[J.body2].id,
     anchor1 |-> NAdd(W.bodies[J.body1].p, rotate(J.anchor1, W.bodies[J.body1].a)),
     anchor2 |-> NAdd(W.bodies[J.body2].p, rotate(J.anchor2, W.bodies[J.body2].a)),
     collideConnected |-> J.collideConnected,
     maxForce |-> J.maxForce,
     breakable |-> J.breakable]

\* for (var i in this.bodyHash) bodies.push(...), from id i on.
RECURSIVE serializeBodies(_, _)
serializeBodies(W, i) ==
    IF i > BodyObjCap - 1 THEN <<>>
    ELSE IF W.space.bodyHash[i] = 0 THEN serializeBodies(W, i + 1)
    ELSE <<serializeBody(W, W.space.bodyHash[i])>> \o serializeBodies(W, i + 1)

RECURSIVE serializeJoints(_, _)
serializeJoints(W, i) ==
    IF i > JointObjCap - 1 THEN <<>>
    ELSE IF W.space.jointHash[i] = 0 THEN serializeJoints(W, i + 1)
    ELSE <<serializeJoint(W, W.space.jointHash[i])>> \o serializeJoints(W, i + 1)

\* Space.prototype.toJSON.
toJSON(W) ==
    [bodies |-> serializeBodies(W, 0), joints |-> serializeJoints(W, 0)]

\* new ShapeCircle / ShapeSegment / ShapePoly: a shape of no body yet.
newShape(W, kind) ==
    [W EXCEPT !.shapes = Append(@, [type |-> shapeType(kind), body |-> 0]),
              !.counters.Shape = @ + 1]

\* Body.addShape(shape): shape.body = this, this.shapeArr.push(shape).
addShape(W, b, sh) ==
    [W EXCEPT !.shapes[sh].body = b, !.bodies[b].shapeArr = Append(@, sh)]

\* new DistanceJoint(body1, body2, anchor1, anchor2): the fields of Joint
\* and the distance of the anchors.
newDistanceJoint(W, b1, b2) ==
    LET W1 == newRopeJoint(W, b1, b2, 0, FALSE) IN
    [W1 EXCEPT !.joints[Len(W1.joints)].type = "DistanceJoint"]

\* C = [W, shape, joint, err]: the world, the variables `shape` and `joint`
\* of create (0 is undefined; a var of a loop body keeps its value from one
\* round to the next) and the exception thrown, or "none".
\* Lines 255-265: the switch over config_shape.type has no default.
switchShape(C, kind) ==
    IF kind \in ShapeKinds
    THEN [C EXCEPT !.W = newShape(C.W, kind), !.shape = Len(C.W.shapes) + 1]
    ELSE C

\* Lines 267-271: shape.e = ... throws a TypeError on undefined.
configureShape(C, b) ==
    IF C.shape = 0 THEN [C EXCEPT !.err = "TypeError"]
    ELSE [C EXCEPT !.W = addShape(C.W, b, C.shape)]

RECURSIVE createShapes(_, _, _, _)
createShapes(C, b, kinds, j) ==
    IF C.err # "none" \/ j > Len(kinds) THEN C
    ELSE createShapes(configureShape(switchShape(C, kinds[j]), b),
                      b, kinds, j + 1)

\* Lines 274-275: body.resetMassData(), this.addBody(body).
createdBody(C, b) ==
    IF C.err # "none" THEN C ELSE [C EXCEPT !.W = addBody(C.W, b)]

\* Lines 247-275 for one body of the scene.
createBody(C, cfg) ==
    createdBody(
        createShapes(
            [C EXCEPT !.W = newBody(C.W, IF cfg.type = "static" THEN "static"
                                         ELSE "dynamic", cfg.x, NO_SHAPE)],
            Len(C.W.bodies) + 1, cfg.shapes, 1),
        Len(C.W.bodies) + 1)

RECURSIVE createBodies(_, _, _)
createBodies(C, cfgs, i) ==
    IF C.err # "none" \/ i > Len(cfgs) THEN C
    ELSE createBodies(createBody(C, cfgs[i]), cfgs, i + 1)

\* this.bodyHash[id]: undefined for an id that is no key of the table.
lookupBody(W, id) == IF id \in BodyIds THEN W.space.bodyHash[id] ELSE 0

\* Lines 284-313: the switch over config_joint.type has a case for
\* DistanceJoint (and five more kinds, none of them RopeJoint) and no
\* default; the constructor reads its bodies.
switchJoint(C, cfg) ==
    IF cfg.type = "DistanceJoint"
    THEN IF lookupBody(C.W, cfg.body1) = 0 \/ lookupBody(C.W, cfg.body2) = 0
         THEN [C EXCEPT !.err = "TypeError"]
         ELSE [C EXCEPT !.W = newDistanceJoint(C.W, lookupBody(C.W, cfg.body1),
                                               lookupBody(C.W, cfg.body2)),
                        !.joint = Len(C.W.joints) + 1]
    ELSE C

\* Lines 315-319: joint.collideConnected = ... throws a TypeError on
\* undefined; this.addJoint(joint).
configureJoint(C, cfg) ==
    IF C.err # "none" THEN C
    ELSE IF C.joint = 0 THEN [C EXCEPT !.err = "TypeError"]
    ELSE [C EXCEPT !.W = addJoint(
             [C.W EXCEPT !.joints[C.joint].collideConnected = cfg.collideConnected,
                         !.joints[C.joint].maxForce = cfg.maxForce,
                         !.joints[C.joint].breakable = cfg.breakable],
             C.joint)]

RECURSIVE createJoints(_, _, _)
createJoints(C, cfgs, i) ==
    IF C.err # "none" \/ i > Len(cfgs) THEN C
    ELSE createJoints(configureJoint(switchJoint(C, cfgs[i]), cfgs[i]),
                      cfgs, i + 1)

\* Space.prototype.create(text) with config = JSON.parse(text).
create(W, config) ==
    createJoints(
        createBodies([W |-> clear(W), shape |-> 0, joint |-> 0, err |-> "none"],
                     config.bodies, 1),
        config.joints, 1)

\* What toJSON shows of a world with the ids taken out: the bodies in table
\* order and the joints in table order, each with the places of its two
\* endpoint bodies in the body list (0 for a body that is not in it).
RECURSIVE bodyList(_, _)
bodyList(W, i) ==
    IF i > BodyObjCap - 1 THEN <<>>
    ELSE IF W.space.bodyHash[i] = 0 THEN bodyList(W, i + 1)
    ELSE <<W.space.bodyHash[i]>> \o bodyList(W, i + 1)

placeOf(L, b) ==
    IF \E k \in 1 .. Len(L) : L[k] = b
    THEN CHOOSE k \in 1 .. Len(L) : L[k] = b ELSE 0

sceneOf(W) ==
    LET L == bodyList(W, 0)
        T == toJSON(W)
    IN  [bodies |-> T.bodies,
         joints |-> [k \in 1 .. Len(T.joints) |->
            [T.joints[k] EXCEPT
                !.body1 = placeOf(L, lookupBody(W, T.joints[k].body1)),
                !.body2 = placeOf(L, lookupBody(W, T.joints[k].body2))]]]

(* ------------------------------ inputs -------------------------------- *)
\* The bodies the application constructs: an anchor without shapes, a
\* static polygon and dynamic circles, at two places 100 apart, the dynamic
\* ones at rest or moving (body.v set after construction).
BodyInputs ==
    {[type |-> "static", x |-> 0, st |-> NO_SHAPE, v |-> 0],
     [type |-> "static", x |-> 100, st |-> TYPE_POLY, v |-> 0],
     [type |-> "dynamic", x |-> 0, st |-> TYPE_CIRCLE, v |-> 0],
     [type |-> "dynamic", x |-> 100, st |-> TYPE_CIRCLE, v |-> 0],
     [type |-> "dynamic", x |-> 0, st |-> TYPE_CIRCLE, v |-> 70],
     [type |-> "dynamic", x |-> 100, st |-> TYPE_CIRCLE, v |-> 70]}
\* maxForce (impulse per time unit) and breakable of the joints.
JointInputs ==
    {[maxForce |-> 70, breakable |-> TRUE],
     [maxForce |-> 70, breakable |-> FALSE]}
\* space.gravity, as the application sets it after new Space().
Gravities == {0, 70}
\* The arguments of step: dt in time units, vel_iteration, pos_iteration,
\* warmStarting, allowSleep.
StepInputs ==
    {[dt |-> 1, vel |-> 1, pos |-> 1, warm |-> TRUE, sleep |-> TRUE],
     [dt |-> 2, vel |-> 1, pos |-> 1, warm |-> TRUE, sleep |-> TRUE],
     [dt |-> 1, vel |-> 0, pos |-> 1, warm |-> TRUE, sleep |-> TRUE],
     [dt |-> 1, vel |-> 1, pos |-> 0, warm |-> TRUE, sleep |-> TRUE],
     [dt |-> 1, vel |-> 1, pos |-> 1, warm |-> FALSE, sleep |-> TRUE],
     [dt |-> 2, vel |-> 1, pos |-> 1, warm |-> TRUE, sleep |-> FALSE],
     [dt |-> 2, vel |-> 0, pos |-> 2, warm |-> FALSE, sleep |-> TRUE],
     [dt |-> 1, vel |-> 2, pos |-> 1, warm |-> TRUE, sleep |-> FALSE],
     [dt |-> 1, vel |-> 0, pos |-> 2, warm |-> FALSE, sleep |-> FALSE]}

\* The scenes the application hands to create: bodies with known and
\* unknown shape kinds, joints of a known kind, of an unknown kind and of a
\* body id that is not in the scene.
SceneBody(type, x, kinds) == [type |-> type, x |-> x, shapes |-> kinds]
SceneJoint(type, body1, body2) ==
    [type |-> type, body1 |-> body1, body2 |-> body2,
     anchor1 |-> 0, anchor2 |-> 100, collideConnected |-> FALSE,
     maxForce |-> 70, breakable |-> TRUE]
Circle0 == SceneBody("dynamic", 0, <<"ShapeCircle">>)
Poly100 == SceneBody("static", 100, <<"ShapePoly">>)
Blob0 == SceneBody("dynamic", 0, <<"ShapeBlob">>)
SceneInputs ==
    {[bodies |-> <<>>, joints |-> <<>>],
     [bodies |-> <<Circle0, Poly100>>,
      joints |-> <<SceneJoint("DistanceJoint", 0, 1)>>],
     [bodies |-> <<Blob0>>, joints |-> <<>>],
     [bodies |-> <<Poly100, Blob0>>, joints |-> <<>>],
     [bodies |-> <<Circle0, Poly100>>,
      joints |-> <<SceneJoint("HingeJoint", 0, 1)>>],
     [bodies |-> <<Circle0, Poly100>>,
      joints |-> <<SceneJoint("DistanceJoint", 0, 1),
                   SceneJoint("HingeJoint", 0, 1)>>],
     [bodies |-> <<Circle0, Poly100>>,
      joints |-> <<SceneJoint("DistanceJoint", 0, 3)>>]}

\* new Body(...), body.v.set(v, 0).
constructBody(W, in) ==
    LET W1 == newBody(W, in.type, in.x, in.st) IN
    [W1 EXCEPT !.bodies[Len(W1.bodies)].v = in.v]

NoFrame == [dt |-> 0, allowSleep |-> FALSE, positionSolved |-> FALSE, i |-> 0]

EmptyWorld ==
    [bodies |-> <<>>, shapes |-> <<>>, joints |-> <<>>, space |-> NewSpace,
     counters |-> [Body |-> 0, Shape |-> 0, Joint |-> 0], calls |-> <<>>]

(* ------------------- the application builds a world ------------------- *)
\* The lists of at most n elements of S.
RECURSIVE ListsUpTo(_, _)
ListsUpTo(S, n) ==
    IF n = 0 THEN {<<>>}
    ELSE LET L == ListsUpTo(S, n - 1) IN
         L \cup {Append(l, x) : l \in {m \in L : Len(m) = n - 1}, x \in S}

\* space.clear(), then each body constructed and added, then each joint
\* constructed and added, in list order.
RECURSIVE buildBodies(_, _, _)
buildBodies(W, bs, k) ==
    IF k > Len(bs) THEN W
    ELSE LET W1 == constructBody(W, bs[k]) IN
         buildBodies(addBody(W1, Len(W1.bodies)), bs, k + 1)

\* Each body constructed, none added.
RECURSIVE buildBodiesOnly(_, _, _)
buildBodiesOnly(W, bs, k) ==
    IF k > Len(bs) THEN W
    ELSE buildBodiesOnly(constructBody(W, bs[k]), bs, k + 1)

RECURSIVE buildJoints(_, _, _)
buildJoints(W, js, k) ==
    IF k > Len(js) THEN W
    ELSE LET W1 == newRopeJoint(W, js[k].body1, js[k].body2,
                                js[k].maxForce, js[k].breakable)
         IN  buildJoints(addJoint(W1, Len(W1.joints)), js, k + 1)

build(g, bs, js) ==
    LET W0 == clear([EmptyWorld EXCEPT !.space.gravity = g]) IN
    buildJoints(buildBodies(W0, bs, 1), js, 1)

JointSpecs(n) ==
    {[body1 |-> b1, body2 |-> b2, maxForce |-> in.maxForce,
      breakable |-> in.breakable] :
        b1 \in 1 .. n, b2 \in 1 .. n, in \in JointInputs}

(* ---------------------------- observations --------------------------- *)
\* The Body objects of the body table and the Joint objects of the joint
\* table.
bodiesInSpace(W) ==
    {b \in 1 .. Len(W.bodies) : W.space.bodyHash[W.bodies[b].id] = b}

jointsInSpace(W) ==
    {j \in 1 .. Len(W.joints) : W.space.jointHash[W.joints[j].id] = j}

\* The test of lines 793: the body is over the sleep tolerance.
overTolerance(B) ==
    \/ NGt(NMul(B.w, B.w), SLEEP_ANGULAR_TOLERANCE * SLEEP_ANGULAR_TOLERANCE)
    \/ NGt(NMul(B.v, B.v), SLEEP_LINEAR_TOLERANCE * SLEEP_LINEAR_TOLERANCE)

\* The history the properties read: the number of steps, the bodies as they
\* were built, and of the last step: the joint table at its start, each
\* joint's squared reaction impulse at line 752, the joint table and each
\* joint's position error when the position solver started, dt and
\* pos_iteration; for each body the duration of the steps in a row (with
\* allowSleep) it ended within the tolerance; whether the hook changed the
\* world; the last call if it was clear, create or a removeBody of a body
\* of the space, its argument and the joints of the space that had the
\* argument as an endpoint; the scene given to create and the scene of the
\* world before it; the calls of the last step, its vel_iteration, and the
\* contact solver list and the bodies when it began.
NoHistory ==
    [steps |-> 0, start |-> <<>>, table0 |-> {}, force |-> <<>>,
     solved |-> {}, c0 |-> <<>>, dt |-> 0, pos |-> 0, quiet |-> <<>>,
     hook |-> FALSE, op |-> "none", arg |-> 0, cascade |-> {},
     text |-> <<>>, before |-> <<>>,
     calls |-> <<>>, vel |-> 0, list0 |-> <<>>, bodies0 |-> <<>>]

\* The history after a call by the application outside of a step: what is
\* known of the last step is forgotten.
called(op, arg, cascade) ==
    [NoHistory EXCEPT !.steps = ghost.steps, !.start = ghost.start,
                      !.op = op, !.arg = arg, !.cascade = cascade]

quietBefore(b) == IF b \in DOMAIN ghost.quiet THEN ghost.quiet[b] ELSE 0

(* ------------------------------ actions ------------------------------- *)
\* new Space().
Init ==
    /\ bodies = <<>>
    /\ shapes = <<>>
    /\ joints = <<>>
    /\ space = NewSpace
    /\ counters = [Body |-> 0, Shape |-> 0, Joint |-> 0]
    /\ pc = "idle"
    /\ frame = NoFrame
    /\ err = "none"
    /\ ghost = NoHistory

IsWorld(W) ==
    /\ bodies = W.bodies
    /\ shapes = W.shapes
    /\ joints = W.joints
    /\ space = W.space
    /\ counters = W.counters

\* A world the application has built, with a gravity of G, bodies of B and
\* at most n joints.
BuiltFrom(G, B, n) ==
    /\ \E g \in G, bs \in ListsUpTo(B, MaxBodies) :
          \E js \in ListsUpTo({s \in JointSpecs(Len(bs)) : s.body1 < s.body2},
                              n) :
             IsWorld(build(g, bs, js))
    /\ pc = "idle"
    /\ frame = NoFrame
    /\ err = "none"
    /\ ghost = [NoHistory EXCEPT !.start = bodies]

InitBuilt == BuiltFrom(Gravities, BodyInputs, MaxJoints)

\* A world of bodies at rest: a circle may lie against the polygon, or
\* against another circle, within the slop.
InitResting ==
    BuiltFrom(Gravities,
              {[type |-> "dynamic", x |-> 62, st |-> TYPE_CIRCLE, v |-> 0],
               [type |-> "dynamic", x |-> 100, st |-> TYPE_CIRCLE, v |-> 0],
               [type |-> "static", x |-> 100, st |-> TYPE_POLY, v |-> 0]},
              0)

\* A world without gravity of circles at rest in a row, the last of them
\* dynamic or static, each of the first ones roped to the next at the
\* length of the rope.
InitChain ==
    /\ \E last \in {"static", "dynamic"}, n \in 1 .. JointObjCap - 1 :
          IsWorld(build(0,
                        [k \in 1 .. BodyObjCap |->
                            [type |-> IF k = BodyObjCap THEN last
                                      ELSE "dynamic",
                             x |-> 100 * (k - 1), st |-> TYPE_CIRCLE,
                             v |-> 0]],
                        [k \in 1 .. n |->
                            [body1 |-> k, body2 |-> k + 1,
                             maxForce |-> 70, breakable |-> FALSE]]))
    /\ pc = "idle"
    /\ frame = NoFrame
    /\ err = "none"
    /\ ghost = [NoHistory EXCEPT !.start = bodies]

\* new Space() and bodies at rest the application has constructed and not
\* yet added.
InitBodies ==
    /\ \E bs \in ListsUpTo({in \in BodyInputs : in.v = 0 /\ in.st # NO_SHAPE},
                            MaxBodies) :
          IsWorld(buildBodiesOnly(EmptyWorld, bs, 1))
    /\ pc = "idle"
    /\ frame = NoFrame
    /\ err = "none"
    /\ ghost = NoHistory

\* A world of anchors and of circles at one place, with at most one joint
\* and no gravity.
InitAnchored ==
    BuiltFrom({0}, {in \in BodyInputs :
                        in.v = 0 /\ (in.st = NO_SHAPE \/ in.x = 100)
                                 /\ in.st # TYPE_POLY}, 1)

NewBody ==
    /\ pc = "idle"
    /\ Len(bodies) < MaxBodies
    /\ \E in \in BodyInputs : SetWorld(constructBody(World, in))
    /\ err' = "none"
    /\ ghost' = called("none", 0, {})
    /\ UNCHANGED <<pc, frame>>

AddBody ==
    /\ pc = "idle"
    /\ \E b \in 1 .. Len(bodies) : SetWorld(addBody(World, b))
    /\ err' = "none"
    /\ ghost' = called("none", 0, {})
    /\ UNCHANGED <<pc, frame>>

RemoveBody ==
    /\ pc = "idle"
    /\ \E b \in 1 .. Len(bodies) :
          /\ SetWorld(removeBody(World, b))
          /\ ghost' = IF b \in bodiesInSpace(World)
                       THEN called("removeBody", b,
                                   {j \in jointsInSpace(World) :
                                       b \in {joints[j].body1, joints[j].body2}})
                       ELSE called("none", 0, {})
    /\ err' = "none"
    /\ UNCHANGED <<pc, frame>>

NewRopeJoint ==
    /\ pc = "idle"
    /\ Len(joints) < MaxJoints
    /\ \E b1, b2 \in 1 .. Len(bodies), in \in JointInputs :
          /\ b1 < b2
          /\ SetWorld(newRopeJoint(World, b1, b2, in.maxForce, in.breakable))
    /\ err' = "none"
    /\ ghost' = called("none", 0, {})
    /\ UNCHANGED <<pc, frame>>

AddJoint ==
    /\ pc = "idle"
    /\ \E j \in 1 .. Len(joints) :
          /\ SetWorld(addJoint(World, j))
          /\ ghost' = called("addJoint", j, {})
    /\ err' = "none"
    /\ UNCHANGED <<pc, frame>>

\* addJoint by an application that joins only bodies of the space.
AddJointOfSpace ==
    /\ pc = "idle"
    /\ \E j \in 1 .. Len(joints) :
          /\ {joints[j].body1, joints[j].body2} \subseteq bodiesInSpace(World)
          /\ SetWorld(addJoint(World, j))
          /\ ghost' = called("addJoint", j, {})
    /\ err' = "none"
    /\ UNCHANGED <<pc, frame>>

RemoveJoint ==
    /\ pc = "idle"
    /\ \E j \in 1 .. Len(joints) :
          /\ SetWorld(removeJoint(World, j))
          /\ ghost' = called("removeJoint", j, {})
    /\ err' = "none"
    /\ UNCHANGED <<pc, frame>>

Clear ==
    /\ pc = "idle"
    /\ SetWorld(clear(World))
    /\ err' = "none"
    /\ ghost' = called("clear", 0, {})
    /\ UNCHANGED <<pc, frame>>

\* The state when step(in) has come to the postSolve loop by way of T.
StepTo(in, T) ==
    /\ SetWorld(T.R.W)
    /\ frame' = [dt |-> in.dt, allowSleep |-> in.sleep,
                 positionSolved |-> T.R.ok, i |-> 1]
    /\ ghost' = [ghost EXCEPT
          !.steps = @ + 1,
          !.table0 = jointsInSpace(World),
          !.force = [j \in 1 .. Len(joints) |->
                       NMul(NMul(T.W7.joints[j].u, T.W7.joints[j].lambda_acc),
                            NMul(T.W7.joints[j].u, T.W7.joints[j].lambda_acc))],
          !.solved = jointsInSpace(T.W8),
          !.c0 = [j \in 1 .. Len(joints) |->
                    NSub(anchorDistance(T.W8, j), T.W8.joints[j].maxDistance)],
          !.dt = in.dt,
          !.pos = in.pos,
          !.vel = in.vel,
          !.calls = T.R.W.calls,
          !.list0 = space.contactSolverArr,
          !.bodies0 = bodies,
          !.hook = FALSE,
          !.op = "none",
          !.arg = 0,
          !.cascade = {}]

\* The state when create(text) has returned or thrown by way of C; the
\* exploration ends there.
Loaded(op, text, before, C) ==
    /\ SetWorld(C.W)
    /\ err' = C.err
    /\ pc' = "loaded"
    /\ ghost' = [called(op, 0, {}) EXCEPT !.text = text, !.before = before]
    /\ UNCHANGED frame

\* space.create(JSON.stringify(space)).
Reload ==
    /\ pc = "idle"
    /\ Loaded("reload", toJSON(World), sceneOf(World),
              create(World, toJSON(World)))

\* space.create(text) of a scene of the application.
Create ==
    /\ pc = "idle"
    /\ \E text \in SceneInputs :
          Loaded("create", text, sceneOf(World), create(World, text))

\* Space.prototype.step, up to the first call of the postSolve hook.
Step ==
    /\ pc = "idle"
    /\ ghost.steps < MaxSteps
    /\ \E in \in StepInputs :
          StepTo(in, stepToPostSolve(World, in.dt, in.vel, in.pos, in.warm))
    /\ pc' = "postSolve"
    /\ err' = "none"

\* this.postSolve(arb) for the next contact solver: the hook reads the
\* world and leaves it as it is.
PostSolve ==
    /\ pc = "postSolve"
    /\ frame.i <= Len(space.contactSolverArr)
    /\ frame' = [frame EXCEPT !.i = @ + 1]
    /\ UNCHANGED <<bodies, shapes, joints, space, counters, pc, err, ghost>>

\* Space.prototype.step after the postSolve loop.
StepFinish ==
    /\ pc = "postSolve"
    /\ frame.i > Len(space.contactSolverArr)
    /\ SetWorld(stepAfterPostSolve(World, frame.dt, frame.allowSleep,
                                   frame.positionSolved))
    /\ pc' = "idle"
    /\ frame' = NoFrame
    /\ ghost' = [ghost EXCEPT !.quiet = [b \in 1 .. Len(bodies) |->
                    IF /\ frame.allowSleep
                       /\ b \in bodiesInSpace(World)
                       /\ isDynamic(bodies[b])
                       /\ ~overTolerance(bodies[b])
                    THEN quietBefore(b) + frame.dt ELSE 0]]
    /\ UNCHANGED err

\* this.postSolve(arb) with a hook that calls addBody, removeBody, addJoint
\* or removeJoint of the space and changes its tables.
HookMutates ==
    /\ pc = "postSolve"
    /\ frame.i <= Len(space.contactSolverArr)
    /\ \E W \in {addBody(World, b) : b \in 1 .. Len(bodies)}
             \cup {removeBody(World, b) : b \in 1 .. Len(bodies)}
             \cup {addJoint(World, j) : j \in 1 .. Len(joints)}
             \cup {removeJoint(World, j) : j \in 1 .. Len(joints)} :
          /\ W # World
          /\ SetWorld(W)
    /\ frame' = [frame EXCEPT !.i = @ + 1]
    /\ ghost' = [ghost EXCEPT !.hook = TRUE]
    /\ UNCHANGED <<pc, err>>

\* A step from its beginning to its end, by way of T, with a hook that
\* changes nothing.
wholeStep(in, T) == stepAfterPostSolve(T.R.W, in.dt, in.sleep, T.R.ok)

\* this.postSolve(arb) with a hook that calls space.step: the nested step
\* runs to its end (its own hook calls change nothing), then the loop of
\* the outer step goes on over this.contactSolverArr as it is now.
HookSteps ==
    /\ pc = "postSolve"
    /\ frame.i <= Len(space.contactSolverArr)
    /\ ghost.steps < MaxSteps
    /\ \E in \in StepInputs :
          SetWorld(wholeStep(
              in, stepToPostSolve(World, in.dt, in.vel, in.pos, in.warm)))
    /\ frame' = [frame EXCEPT !.i = @ + 1]
    /\ ghost' = [ghost EXCEPT !.hook = TRUE, !.steps = @ + 1]
    /\ UNCHANGED <<pc, err>>

\* The application steps a world it has built.
Next ==
    \/ Step
    \/ PostSolve
    \/ StepFinish

Spec == InitBuilt /\ [][Next]_vars

\* The application builds a world and takes it apart, joining only bodies
\* of the space.
NextTopo ==
    \/ NewBody
    \/ AddBody
    \/ RemoveBody
    \/ NewRopeJoint
    \/ AddJointOfSpace
    \/ RemoveJoint

SpecTopo == Init /\ [][NextTopo]_vars

\* The application builds a world, takes it apart and loads a scene.
NextScene ==
    \/ NewBody
    \/ AddBody
    \/ RemoveBody
    \/ NewRopeJoint
    \/ AddJoint
    \/ RemoveJoint
    \/ Reload
    \/ Create

SpecScene == Init /\ [][NextScene]_vars

\* The application changes, steps and clears a world it has built.
NextClear ==
    \/ AddBody
    \/ RemoveBody
    \/ AddJoint
    \/ RemoveJoint
    \/ Clear
    \/ Step
    \/ PostSolve
    \/ StepFinish

SpecClear == InitAnchored /\ [][NextClear]_vars

\* The application clears a world it has built, constructs bodies and
\* joints after that and adds and removes the old and the new ones.
NextJoints ==
    \/ NewBody
    \/ AddBody
    \/ NewRopeJoint
    \/ AddJoint
    \/ RemoveJoint
    \/ RemoveBody
    \/ Clear

SpecJoints == InitAnchored /\ [][NextJoints]_vars

\* The application steps a chain of roped bodies and takes ropes off and
\* puts them back; no two bodies touch, so the postSolve loop has nothing
\* to call.
NextChain ==
    \/ AddJoint
    \/ RemoveJoint
    \/ Step
    \/ StepFinish

SpecChain == InitChain /\ [][NextChain]_vars

\* The application steps a world of bodies that rest on each other.
SpecRest == InitResting /\ [][Next]_vars

\* The application adds and removes bodies it has constructed, clears and
\* steps a new Space.
NextBroad ==
    \/ AddBody
    \/ RemoveBody
    \/ Clear
    \/ Step
    \/ PostSolve
    \/ StepFinish

SpecBroad == InitBodies /\ [][NextBroad]_vars

\* The application steps a world with a postSolve hook that changes the
\* world or steps it.
NextHook ==
    \/ Step
    \/ PostSolve
    \/ HookMutates
    \/ HookSteps
    \/ StepFinish

SpecHook == InitBuilt /\ [][NextHook]_vars

(* ------------------------------ claims -------------------------------- *)
\* C1: every static body of the space has, after any number of steps, the
\* position, angle, linear and angular velocity it was built with.
C1_StaticBodiesUnmoved ==
    \A b \in bodiesInSpace(World) :
        isStatic(bodies[b]) =>
            /\ bodies[b].p = ghost.start[b].p
            /\ bodies[b].a = ghost.start[b].a
            /\ bodies[b].v = ghost.start[b].v
            /\ bodies[b].w = ghost.start[b].w

\* C2: when the position solver of a step has run, every rope joint of the
\* space whose position error before the solve was at most
\* MAX_LINEAR_CORRECTION times pos_iteration has its two world anchors at
\* most maxDistance + LINEAR_SLOP apart.
C2_RopeUpperBound ==
    (pc = "postSolve" /\ frame.i = 1) =>
        \A j \in jointsInSpace(World) :
            NLe(ghost.c0[j], MAX_LINEAR_CORRECTION * ghost.pos) =>
                NLe(anchorDistance(World, j),
                    joints[j].maxDistance + LINEAR_SLOP)
\* The dynamic bodies of the space, and a body going from awake to asleep
\* in a transition.
dynamicInSpace == {b \in bodiesInSpace(World) : isDynamic(bodies[b])}
putToSleep(b) == bodies[b].awaked /\ ~bodies'[b].awaked
\* Joint j took the breakage branch of the last step: it is breakable and
\* its squared reaction force reached maxForce squared.
reachedMaxForce(j) ==
    /\ joints[j].breakable
    /\ ghost.force[j] # NaN
    /\ ghost.force[j] >= (joints[j].maxForce * ghost.dt)
                             * (joints[j].maxForce * ghost.dt)
absentJoint(j) ==
    /\ space.jointHash[joints[j].id] = 0
    /\ bodies[joints[j].body1].jointHash[joints[j].id] = 0
    /\ bodies[joints[j].body2].jointHash[joints[j].id] = 0
presentJoint(j) ==
    /\ space.jointHash[joints[j].id] = j
    /\ bodies[joints[j].body1].jointHash[joints[j].id] = j
    /\ bodies[joints[j].body2].jointHash[joints[j].id] = j

\* C3: of the joints that were in the space when the last step began, each
\* breakable one whose squared reaction force reached maxForce squared is
\* absent from the joint table and from both endpoint bodies' joint sets
\* and was not in the table when the position solver started; every other
\* one is still in the table and in both joint sets.
C3_BreakableJoints ==
    ghost.steps > 0 =>
        \A j \in ghost.table0 :
            IF reachedMaxForce(j)
            THEN absentJoint(j) /\ j \notin ghost.solved
            ELSE presentJoint(j) /\ j \in ghost.solved

\* C3 witness: a step has broken a joint whose reaction force was exactly
\* maxForce, and has kept another joint.
C3_Witness ==
    /\ pc = "idle"
    /\ ghost.steps > 0
    /\ \E j \in ghost.table0 :
          /\ reachedMaxForce(j)
          /\ ghost.force[j] = (joints[j].maxForce * ghost.dt)
                                  * (joints[j].maxForce * ghost.dt)
          /\ absentJoint(j)
    /\ \E j \in ghost.table0 : ~reachedMaxForce(j) /\ presentJoint(j)

\* C4: at the end of a step the dynamic bodies are put to sleep if and only
\* if allowSleep, positionSolved and every dynamic body's accumulated
\* sleepTime is at least TIME_TO_SLEEP; a dynamic body over the tolerance
\* has its sleepTime reset to 0 and keeps every body from being put to
\* sleep; no static body is put to sleep.
C4_SleepRule ==
    [][(pc = "postSolve" /\ pc' = "idle") =>
          LET all == /\ frame.allowSleep
                     /\ frame.positionSolved
                     /\ \A b \in dynamicInSpace :
                           bodies'[b].sleepTime >= TIME_TO_SLEEP
          IN  /\ all => \A b \in dynamicInSpace : ~bodies'[b].awaked
              /\ ~all => \A b \in dynamicInSpace : ~putToSleep(b)
              /\ frame.allowSleep =>
                    \A b \in dynamicInSpace :
                        overTolerance(bodies[b]) =>
                            /\ bodies'[b].sleepTime = 0
                            /\ \A c \in bodiesInSpace(World) : ~putToSleep(c)
              /\ \A b \in bodiesInSpace(World) :
                    isStatic(bodies[b]) => ~putToSleep(b)]_vars

\* C5 as stated: a dynamic body that ended the steps before this one within
\* the tolerance for at least TIME_TO_SLEEP in a row, and this step too, is
\* asleep at the end of this step if allowSleep and positionSolved.
C5_EveryQuietBodySleeps ==
    [][(pc = "postSolve" /\ pc' = "idle" /\ frame.allowSleep
            /\ frame.positionSolved) =>
          \A b \in dynamicInSpace :
              (quietBefore(b) >= TIME_TO_SLEEP /\ ~overTolerance(bodies[b]))
                  => ~bodies'[b].awaked]_vars

\* C5 amended: at the end of a step with allowSleep and positionSolved, if
\* every dynamic body of the space has an accumulated sleepTime of at least
\* TIME_TO_SLEEP then every dynamic body is asleep, and if the sleepTime of
\* one of them is below TIME_TO_SLEEP then no body is put to sleep.
C5_AllQuietBodiesSleep ==
    [][(pc = "postSolve" /\ pc' = "idle" /\ frame.allowSleep
            /\ frame.positionSolved) =>
          IF \A b \in dynamicInSpace : bodies'[b].sleepTime >= TIME_TO_SLEEP
          THEN \A b \in dynamicInSpace : ~bodies'[b].awaked
          ELSE \A b \in bodiesInSpace(World) : ~putToSleep(b)]_vars

\* C5 witness: a step has put to sleep two dynamic bodies that had been
\* within the tolerance for TIME_TO_SLEEP.
C5_Witness ==
    /\ pc = "idle"
    /\ ghost.steps > 0
    /\ Cardinality(dynamicInSpace) = 2
    /\ \A b \in dynamicInSpace :
          /\ bodies[b].sleepTime >= TIME_TO_SLEEP
          /\ ghost.quiet[b] >= TIME_TO_SLEEP
          /\ ~bodies[b].awaked
\* C6: after removeBody of a body of the space the body is absent from the
\* body table and every joint of the space that had it as an endpoint is
\* absent from the joint table and from both endpoints' joint sets; and
\* every joint of the joint table has both endpoints in the body table.
C6_RemoveBodyCascades ==
    /\ ghost.op = "removeBody" =>
          /\ ghost.arg \notin bodiesInSpace(World)
          /\ space.bodyHash[bodies[ghost.arg].id] = 0
          /\ \A j \in ghost.cascade : absentJoint(j)
          /\ \A i \in JointIds : bodies[ghost.arg].jointHash[i] = 0
    /\ \A j \in jointsInSpace(World) :
          {joints[j].body1, joints[j].body2} \subseteq bodiesInSpace(World)

\* C6 witness: removeBody has taken a body with two joints out of the
\* space, and the other endpoint is still in it.
C6_Witness ==
    /\ ghost.op = "removeBody"
    /\ Cardinality(ghost.cascade) = 2
    /\ \A j \in ghost.cascade : absentJoint(j)
    /\ bodiesInSpace(World) # {}

\* C7: after create(toJSON(W)) has returned, the scene of the world is the
\* scene of W: the same bodies, the same joints between the bodies at the
\* same places of the body list.
C7_SceneRoundTrip ==
    ghost.op = "reload" =>
        /\ err = "none"
        /\ sceneOf(World) = ghost.before

\* An unknown shape kind, an unknown joint kind, or a joint of a body id
\* that the scene does not hold.
invalidScene(text) ==
    \/ \E i \in 1 .. Len(text.bodies) :
          \E j \in 1 .. Len(text.bodies[i].shapes) :
             text.bodies[i].shapes[j] \notin ShapeKinds
    \/ \E i \in 1 .. Len(text.joints) :
          \/ text.joints[i].type \notin {"DistanceJoint", "RopeJoint"}
          \/ text.joints[i].body1 \notin 0 .. (Len(text.bodies) - 1)
          \/ text.joints[i].body2 \notin 0 .. (Len(text.bodies) - 1)

\* C8: after create of a scene with an unknown shape kind, an unknown joint
\* kind or a joint of a missing body, create has thrown and the body table,
\* the joint table and the contact solver list are empty.
C8_InvalidSceneFails ==
    (ghost.op = "create" /\ invalidScene(ghost.text)) =>
        /\ err # "none"
        /\ \A i \in BodyIds : space.bodyHash[i] = 0
        /\ \A i \in JointIds : space.jointHash[i] = 0
        /\ space.contactSolverArr = <<>>

\* C9: once the postSolve hook has changed the tables of the space or has
\* called step inside a step, the step has failed with a contract
\* violation.
C9_HookMutationFails ==
    ghost.hook => err = "ContractViolation"

\* C10: after clear the tables and the contact solver list are empty,
\* numBodies, numJoints, stepCount and the three id counters are 0.
C10_ClearTearsDown ==
    ghost.op = "clear" =>
        /\ bodiesInSpace(World) = {}
        /\ \A i \in BodyIds : space.bodyHash[i] = 0
        /\ \A i \in JointIds : space.jointHash[i] = 0
        /\ space.numBodies = 0
        /\ space.numJoints = 0
        /\ space.contactSolverArr = <<>>
        /\ space.stepCount = 0
        /\ counters = [Body |-> 0, Shape |-> 0, Joint |-> 0]

\* The calls of solveVelocityConstraints of the last step, in their order.
isVelocityCall(e) == e.op \in {"velJoint", "velContact"}
velocityCalls == SelectSeq(ghost.calls, isVelocityCall)

\* C11: the velocity solver of a step makes vel_iteration rounds of calls;
\* each round calls solveVelocityConstraints once on every joint of the
\* joint table and then once on every contact solver, in list order.
C11_VelocitySolverOrder ==
    (pc = "postSolve" /\ frame.i = 1) =>
        LET V == velocityCalls
            nJ == Cardinality(ghost.table0)
            nC == Len(space.contactSolverArr)
        IN  /\ Len(V) = ghost.vel * (nJ + nC)
            /\ \A r \in 0 .. (ghost.vel - 1) :
                  /\ \A i \in 1 .. nJ : V[r * (nJ + nC) + i].op = "velJoint"
                  /\ {V[r * (nJ + nC) + i].a : i \in 1 .. nJ} = ghost.table0
                  /\ \A k \in 1 .. nC :
                        /\ V[r * (nJ + nC) + nJ + k].op = "velContact"
                        /\ V[r * (nJ + nC) + nJ + k].a = k

\* C11 witness: a step of two velocity rounds over a joint and a contact
\* solver.
C11_Witness ==
    /\ pc = "postSolve"
    /\ frame.i = 1
    /\ ghost.vel = 2
    /\ ghost.table0 # {}
    /\ Len(space.contactSolverArr) >= 1
    /\ Len(velocityCalls) >= 4

\* The calls of the position solver of the last step, in their order: the
\* start of each round and the calls of solvePositionConstraints.
isPositionCall(e) == e.op \in {"posRound", "posContact", "posJoint"}
positionCalls == SelectSeq(ghost.calls, isPositionCall)
\* The calls of a round: its start, one per contact solver, one per joint.
roundLength == 1 + Len(space.contactSolverArr) + Cardinality(ghost.solved)
positionRounds == Len(positionCalls) \div roundLength
\* Every call of round r (from 0) returned true.
roundOk(r) ==
    \A i \in 2 .. roundLength : positionCalls[r * roundLength + i].ok

\* C12: the position solver makes at most pos_iteration rounds; each round
\* calls solvePositionConstraints on every contact solver, in list order,
\* and then on every joint of the table; no round before the last had all
\* calls return true; positionSolved is true exactly if the last round had,
\* and if it is false the solver made pos_iteration rounds.
C12_PositionSolverRounds ==
    (pc = "postSolve" /\ frame.i = 1) =>
        LET P == positionCalls
            n == roundLength
            nC == Len(space.contactSolverArr)
        IN  /\ Len(P) = positionRounds * n
            /\ positionRounds <= ghost.pos
            /\ \A r \in 0 .. (positionRounds - 1) :
                  /\ P[r * n + 1].op = "posRound"
                  /\ \A k \in 1 .. nC :
                        /\ P[r * n + 1 + k].op = "posContact"
                        /\ P[r * n + 1 + k].a = k
                  /\ \A i \in (nC + 2) .. n : P[r * n + i].op = "posJoint"
                  /\ {P[r * n + i].a : i \in (nC + 2) .. n} = ghost.solved
            /\ \A r \in 0 .. (positionRounds - 2) : ~roundOk(r)
            /\ frame.positionSolved <=>
                  (positionRounds >= 1 /\ roundOk(positionRounds - 1))
            /\ ~frame.positionSolved => positionRounds = ghost.pos

\* C12 witness: a position solver of two rounds over a contact solver and
\* a joint, the first with a call that returned false, the second with
\* none.
C12_Witness ==
    /\ pc = "postSolve"
    /\ frame.i = 1
    /\ positionRounds = 2
    /\ ghost.solved # {}
    /\ Len(space.contactSolverArr) >= 1
    /\ frame.positionSolved
    /\ ~roundOk(0)

\* C13: when the postSolve hook is called for a contact solver of the
\* list, in list order, the position solver has run, every awake dynamic
\* body of the space has its data cached at its pose, and no body has had
\* its sleepTime counted up or been put to sleep by this step.
C13_PostSolveAfterRecache ==
    (pc = "postSolve" /\ frame.i <= Len(space.contactSolverArr)) =>
        /\ frame.i >= 1
        /\ ghost.pos > 0 => Len(positionCalls) > 0
        /\ \A b \in bodiesInSpace(World) :
              /\ (isDynamic(bodies[b]) /\ isAwake(bodies[b]))
                    => bodies[b].cp = bodies[b].p
              /\ bodies[b].sleepTime \in {0, ghost.bodies0[b].sleepTime}
              /\ ghost.bodies0[b].awaked => bodies[b].awaked

\* The pairs of bodies the broad phase of the last step examined: those
\* that were not skipped by the stepCount test.
isPairCall(e) == e.op = "pair"
pairCalls == SelectSeq(ghost.calls, isPairCall)

\* C14: the broad phase of a step examines no body with itself and every
\* unordered pair of distinct bodies of the space exactly once.
C14_BroadPhasePairs ==
    (pc = "postSolve" /\ frame.i = 1) =>
        /\ \A i \in 1 .. Len(pairCalls) : pairCalls[i].a # pairCalls[i].b
        /\ \A a, b \in bodiesInSpace(World) :
              a < b =>
                 Cardinality({i \in 1 .. Len(pairCalls) :
                                 {pairCalls[i].a, pairCalls[i].b} = {a, b}}) = 1

\* The solvers the last step put into its list, in the order of the list,
\* each with the index its pair had in the list of the step before (0 for
\* a fresh solver) and the accumulated impulse it started with.
isManifoldCall(e) == e.op = "manifold"
manifoldCalls == SelectSeq(ghost.calls, isManifoldCall)

\* The first solver of the list of the step before for a pair of shapes.
priorSolver(shape1, shape2) ==
    LET hits == {h \in 1 .. Len(ghost.list0) :
                    /\ ghost.list0[h].shape1 = shape1
                    /\ ghost.list0[h].shape2 = shape2}
    IN  IF hits = {} THEN 0 ELSE CHOOSE h \in hits : \A g \in hits : h <= g

\* The two shapes of solver h of the list of the step before touch at the
\* start of the last step and their bodies are in the space.
stillTouching(h) ==
    LET C == ghost.list0[h]
        W0 == [World EXCEPT !.bodies = ghost.bodies0]
    IN  /\ bodyOf(W0, C.shape1).space
        /\ bodyOf(W0, C.shape2).space
        /\ shapes[C.shape1].body # shapes[C.shape2].body
        /\ collide(W0, C.shape1, C.shape2) # <<>>

\* The broad phase of the last step does not skip the pair of solver h: one
\* of its bodies is awake and not static and the two are collidable.
notSkipped(h) ==
    LET C == ghost.list0[h]
        W0 == [World EXCEPT !.bodies = ghost.bodies0]
        b1 == shapes[C.shape1].body
        b2 == shapes[C.shape2].body
    IN  /\ \E b \in {b1, b2} :
              isAwake(ghost.bodies0[b]) /\ ~isStatic(ghost.bodies0[b])
        /\ isCollidable(W0, b1, b2)

reusedIn(h) ==
    \E i \in 1 .. Len(manifoldCalls) :
        /\ manifoldCalls[i].old # 0
        /\ manifoldCalls[i].shape1 = ghost.list0[h].shape1
        /\ manifoldCalls[i].shape2 = ghost.list0[h].shape2

\* Each colliding pair is in canonical order; the solver of the step before
\* is kept with its accumulated impulse, a fresh one starts from 0 with
\* both bodies awake.
manifoldsMatched ==
    /\ Len(manifoldCalls) = Len(space.contactSolverArr)
    /\ \A i \in 1 .. Len(manifoldCalls) :
          LET e == manifoldCalls[i]
              C == space.contactSolverArr[i]
              h == priorSolver(e.shape1, e.shape2)
          IN  /\ shapes[e.shape1].type <= shapes[e.shape2].type
              /\ C.shape1 = e.shape1 /\ C.shape2 = e.shape2
              /\ e.old = h
              /\ ghost.vel = 0 => C.jn_acc = e.acc
              /\ h # 0 => e.acc = ghost.list0[h].jn_acc
              /\ h = 0 => /\ e.acc = 0
                          /\ isAwake(bodyOf(World, e.shape1))
                          /\ isAwake(bodyOf(World, e.shape2))

worldBefore == [World EXCEPT !.bodies = ghost.bodies0]

\* The pairs of shapes the narrow phase of the last step is to report: shapes
\* of two bodies of the space, one of them awake and not static, that are
\* collidable and touch.
collidingPairs ==
    {pr \in SUBSET (1 .. Len(shapes)) :
        /\ Cardinality(pr) = 2
        /\ \E s1, s2 \in pr :
              LET b1 == shapes[s1].body
                  b2 == shapes[s2].body
              IN  /\ s1 # s2 /\ b1 # b2
                  /\ ghost.bodies0[b1].space /\ ghost.bodies0[b2].space
                  /\ \E b \in {b1, b2} : /\ isAwake(ghost.bodies0[b])
                                          /\ ~isStatic(ghost.bodies0[b])
                  /\ isCollidable(worldBefore, b1, b2)
                  /\ collide(worldBefore, s1, s2) # <<>>}

\* C16: after the solvers are regenerated the list holds exactly one solver
\* for each pair of shapes that collided in this step and no other, each
\* with shape1.type <= shape2.type.
C16_LiveListExact ==
    (pc = "postSolve" /\ frame.i = 1) =>
        LET arr == space.contactSolverArr IN
        /\ \A k \in 1 .. Len(arr) :
              /\ shapes[arr[k].shape1].type <= shapes[arr[k].shape2].type
              /\ {arr[k].shape1, arr[k].shape2} \in collidingPairs
        /\ \A pr \in collidingPairs :
              Cardinality({k \in 1 .. Len(arr) :
                              {arr[k].shape1, arr[k].shape2} = pr}) = 1

\* The two bodies of joint j are awake after the step.
endpointsAwake(j) ==
    /\ isAwake(bodies'[joints[j].body1])
    /\ isAwake(bodies'[joints[j].body2])

\* The step leaves the tables, the counts and the bodies as they are.
nothingChanged == bodies' = bodies /\ joints' = joints /\ space' = space

\* C17: addJoint of a joint that is not in the space and removeJoint of one
\* that is, the removal of a broken joint by step and of a linked joint by
\* removeBody included, leave both bodies of the joint awake; addJoint of a
\* joint in the space and removeJoint of a joint not in it change nothing.
C17_JointCallsWake ==
    [][\A j \in 1 .. Len(joints) :
          /\ (pc' = "idle" /\ ghost'.op = "addJoint" /\ ghost'.arg = j) =>
                IF j \in jointsInSpace(World) THEN nothingChanged
                ELSE j \in jointsInSpace(World)' => endpointsAwake(j)
          /\ (pc' = "idle" /\ ghost'.op = "removeJoint" /\ ghost'.arg = j) =>
                IF j \notin jointsInSpace(World) THEN nothingChanged
                ELSE /\ j \notin jointsInSpace(World)'
                     /\ endpointsAwake(j)
          /\ (pc' = "idle" /\ ghost'.op = "removeBody"
                 /\ j \in ghost'.cascade) => endpointsAwake(j)
          /\ (pc = "idle" /\ pc' = "postSolve"
                 /\ j \in jointsInSpace(World)
                 /\ j \notin jointsInSpace(World)') => endpointsAwake(j)
      ]_vars

\* The bodies that are awake when the velocity solver of the last step
\* starts.
isVelocityStart(e) == e.op = "velocityStart"
awakeAtVelocityStart == SelectSeq(ghost.calls, isVelocityStart)[1].awake

\* C18: when the velocity solver of a step starts, the two bodies of every
\* joint of the space that joins two dynamic bodies are both awake or both
\* asleep.
C18_WakePropagation ==
    (pc = "postSolve" /\ frame.i = 1) =>
        \A j \in ghost.table0 :
            (isDynamic(bodies[joints[j].body1])
                /\ isDynamic(bodies[joints[j].body2]))
            => (joints[j].body1 \in awakeAtVelocityStart
                   <=> joints[j].body2 \in awakeAtVelocityStart)

\* The calls of initSolver and of solveVelocityConstraints of joint j in the
\* last step, in the order of the calls.
ropeCalls(j) ==
    SelectSeq(ghost.calls,
              LAMBDA e : e.op \in {"initJoint", "velJoint"} /\ e.a = j)

\* The call e of solveVelocityConstraints has applied to the two bodies of
\* its joint the impulse u * (lam1 - lam0).
impulseIsChange(e) ==
    LET jv == NMul(e.u, NSub(e.lam1, e.lam0))
        body1 == bodies[joints[e.a].body1]
        body2 == bodies[joints[e.a].body2]
    IN  /\ e.v1 = NAdd(e.v10, NMul(jv, 0 - m_inv(body1)))
        /\ e.v2 = NAdd(e.v20, NMul(jv, m_inv(body2)))

\* C19: lambda_acc of a rope joint is <= 0 after initSolver, and 0 without
\* warm starting, and <= 0 after every solveVelocityConstraints; each
\* velocity iteration applies the change of lambda_acc it makes, and starts
\* from the lambda_acc the call before has left.
C19_RopeUnilateral ==
    (pc = "postSolve" /\ frame.i = 1) =>
        \A j \in ghost.table0 :
            LET calls == ropeCalls(j) IN
            /\ Len(calls) = 1 + ghost.vel
            /\ calls[1].op = "initJoint"
            /\ ~calls[1].warm => calls[1].lam1 = 0
            /\ joints[j].lambda_acc = calls[Len(calls)].lam1
            /\ \A i \in 1 .. Len(calls) :
                  /\ NLe(calls[i].lam1, 0)
                  /\ i > 1 => /\ calls[i].op = "velJoint"
                              /\ calls[i].lam0 = calls[i - 1].lam1
                              /\ impulseIsChange(calls[i])

\* C20: while the anchors of a rope joint are closer than LINEAR_SLOP, its
\* direction u is zero, solveVelocityConstraints leaves the velocities of
\* its bodies as they are and solvePositionConstraints leaves the bodies as
\* they are.
C20_DegenerateDirection ==
    (pc = "postSolve" /\ frame.i = 1) =>
        \A i \in 1 .. Len(ghost.calls) :
            LET e == ghost.calls[i] IN
            /\ (e.op = "velJoint"
                  /\ NLt(anchorDistance(worldBefore, e.a), LINEAR_SLOP))
               => (e.u = 0 /\ e.v1 = e.v10 /\ e.v2 = e.v20)
            /\ (e.op = "posJoint" /\ NLt(e.dist, LINEAR_SLOP)) => e.same

\* numBodies and numJoints are the numbers of entries of the two tables.
countsMatch ==
    /\ space.numBodies =
          Cardinality({i \in DOMAIN space.bodyHash : space.bodyHash[i] # 0})
    /\ space.numJoints =
          Cardinality({i \in DOMAIN space.jointHash : space.jointHash[i] # 0})

\* The step is a call of the application that leaves the world W1.
callLeaves(W1) ==
    /\ pc = "idle" /\ pc' = "idle"
    /\ bodies' = W1.bodies /\ shapes' = W1.shapes /\ joints' = W1.joints
    /\ space' = W1.space /\ counters' = W1.counters

\* C21: after every call and every step numBodies and numJoints are the
\* numbers of entries of the body table and of the joint table; addBody of
\* a body in the space and removeBody of a body not in it change nothing.
C21_CountsAndNoOps ==
    [][/\ countsMatch'
       /\ \A b \in 1 .. Len(bodies) :
             /\ (b \in bodiesInSpace(World) /\ callLeaves(addBody(World, b)))
                   => nothingChanged
             /\ (b \notin bodiesInSpace(World)
                    /\ callLeaves(removeBody(World, b)))
                   => nothingChanged
      ]_vars

\* Body b of the space is dynamic and asleep when the last step starts, and
\* the step does not wake it: it is asleep when the velocity solver starts
\* (no new contact solver, no wake across a joint) and none of its joints
\* is broken.
sleptThrough(b) ==
    /\ ghost.bodies0[b].space
    /\ isDynamic(ghost.bodies0[b])
    /\ ~isAwake(ghost.bodies0[b])
    /\ b \notin awakeAtVelocityStart
    /\ \A j \in ghost.table0 :
          b \in {joints[j].body1, joints[j].body2}
             => j \in jointsInSpace(World)

\* C22: a dynamic body that is asleep at the start of a step and is not
\* woken during it has at the end of the step the position, angle, linear
\* and angular velocity it had at the start.
C22_SleepingBodyUnmoved ==
    (pc = "idle" /\ ghost.bodies0 # <<>>) =>
        \A b \in 1 .. Len(ghost.bodies0) :
            sleptThrough(b) =>
                /\ bodies[b].p = ghost.bodies0[b].p
                /\ bodies[b].a = ghost.bodies0[b].a
                /\ bodies[b].v = ghost.bodies0[b].v
                /\ bodies[b].w = ghost.bodies0[b].w
====
